---- MODULE Spec2Model ----
(***************************************************************************)
(* Model of the automata library (lib/automata, kept in Index.tsx lines    *)
(* 121-544) and of the handlers that call it.                              *)
(*                                                                         *)
(* A JavaScript string is a sequence of one-character strings.  The three  *)
(* non-ASCII characters of the source are written as named characters:     *)
(* LambdaChar (U+03BB, the epsilon marker), EpsilonChar (U+03B5) and       *)
(* EmptySetChar (U+2205, the sentinel of nfaToDFA).  A JavaScript Set or   *)
(* Map is a duplicate-free sequence in insertion order.                    *)
(***************************************************************************)
EXTENDS Integers, Sequences, FiniteSets, TLC

LambdaChar == "lambda"
EpsilonChar == "epsilon"
EmptySetChar == "emptyset"
NL == "\n"

\* The epsilon marker: the symbol of a transition that reads no input.
Lambda == << LambdaChar >>

\* ---------------------------------------------------------------- bounds
MaxRegexLen == 2
MaxLines == 2
MaxStrLen == 4

\* ------------------------------------------------------ JavaScript strings

\* UTF-16 code unit of a character (Array.prototype.sort compares by it).
CharCode(c) ==
  CASE c = "\t" -> 9 [] c = NL -> 10 [] c = " " -> 32
    [] c = "(" -> 40 [] c = ")" -> 41 [] c = "*" -> 42 [] c = "+" -> 43
    [] c = "," -> 44
    [] c = "0" -> 48 [] c = "1" -> 49 [] c = "2" -> 50 [] c = "3" -> 51
    [] c = "4" -> 52 [] c = "5" -> 53 [] c = "6" -> 54 [] c = "7" -> 55
    [] c = "8" -> 56 [] c = "9" -> 57
    [] c = ":" -> 58 [] c = "?" -> 63
    [] c = "A" -> 65 [] c = "C" -> 67 [] c = "E" -> 69 [] c = "F" -> 70
    [] c = "I" -> 73 [] c = "L" -> 76 [] c = "N" -> 78 [] c = "P" -> 80
    [] c = "T" -> 84
    [] c = "a" -> 97 [] c = "b" -> 98 [] c = "c" -> 99 [] c = "e" -> 101
    [] c = "f" -> 102 [] c = "i" -> 105 [] c = "l" -> 108 [] c = "n" -> 110
    [] c = "p" -> 112 [] c = "q" -> 113 [] c = "t" -> 116 [] c = "x" -> 120
    [] c = "|" -> 124
    [] c = EpsilonChar -> 949 [] c = LambdaChar -> 955 [] c = EmptySetChar -> 8709

\* \s of a JavaScript regular expression, on the characters of the model.
IsSpace(c) == c \in {" ", "\t", NL}

\* The i flag of a regular expression: case folding of a character.
ToLower(c) ==
  CASE c = "A" -> "a" [] c = "C" -> "c" [] c = "E" -> "e" [] c = "F" -> "f"
    [] c = "I" -> "i" [] c = "L" -> "l" [] c = "N" -> "n" [] c = "P" -> "p"
    [] c = "T" -> "t" [] OTHER -> c

\* String.prototype.slice(a, b) with 0-based a <= length and b <= length.
Slice(s, a, b) == IF b <= a THEN <<>> ELSE SubSeq(s, a + 1, b)

RECURSIVE TrimStart(_)
TrimStart(s) ==
  IF s # <<>> /\ IsSpace(Head(s)) THEN TrimStart(Tail(s)) ELSE s

RECURSIVE TrimEnd(_)
TrimEnd(s) ==
  IF s # <<>> /\ IsSpace(s[Len(s)]) THEN TrimEnd(SubSeq(s, 1, Len(s) - 1)) ELSE s

\* String.prototype.trim
Trim(s) == TrimEnd(TrimStart(s))

\* String.prototype.split('\n')
RECURSIVE SplitLinesFrom(_, _, _)
SplitLinesFrom(s, p, q) ==
  IF q > Len(s) THEN << SubSeq(s, p, Len(s)) >>
  ELSE IF s[q] = NL THEN << SubSeq(s, p, q - 1) >> \o SplitLinesFrom(s, q + 1, q + 1)
  ELSE SplitLinesFrom(s, p, q + 1)

SplitLines(s) == SplitLinesFrom(s, 1, 1)

\* Index one past the whitespace run of s that starts at index q.
RECURSIVE SkipSpace(_, _)
SkipSpace(s, q) ==
  IF q <= Len(s) /\ IsSpace(s[q]) THEN SkipSpace(s, q + 1) ELSE q

\* One match of the separator at index q: 0 when there is none, otherwise the
\* index one past the match.  The separator is /\s*,\s*|\s+/ when wsAlone,
\* and /\s*,\s*/ otherwise.
SeparatorEnd(s, q, wsAlone) ==
  LET w == SkipSpace(s, q) IN
  IF w <= Len(s) /\ s[w] = "," THEN SkipSpace(s, w + 1)
  ELSE IF wsAlone /\ w > q THEN w
  ELSE 0

\* String.prototype.split(separator): p is the start of the current field,
\* q the index where the next separator match is tried.
RECURSIVE SplitFrom(_, _, _, _)
SplitFrom(s, p, q, wsAlone) ==
  IF q > Len(s) THEN << SubSeq(s, p, Len(s)) >>
  ELSE LET e == SeparatorEnd(s, q, wsAlone) IN
       IF e = 0 THEN SplitFrom(s, p, q + 1, wsAlone)
       ELSE << SubSeq(s, p, q - 1) >> \o SplitFrom(s, e, e, wsAlone)

\* line.trim().split(/\s*,\s*|\s+/)
SplitFields(s) == SplitFrom(s, 1, 1, TRUE)

\* match[1].split(/\s*,\s*/)
SplitIds(s) == SplitFrom(s, 1, 1, FALSE)

\* Whether the keyword kw (lower case) occurs in s at index q, ignoring case.
OccursAt(s, kw, q) ==
  /\ q + Len(kw) - 1 <= Len(s)
  /\ \A k \in 1..Len(kw) : ToLower(s[q + k - 1]) = kw[k]

\* line.match(/<kw>\s*(.+)/i): <<>> stands for null, otherwise << group 1 >>.
\* The leftmost occurrence of kw that is followed by at least one character
\* matches; \s* is greedy and gives one character back when the rest of the
\* line is whitespace only.
RECURSIVE MatchFrom(_, _, _)
MatchFrom(s, kw, q) ==
  IF q + Len(kw) - 1 > Len(s) THEN <<>>
  ELSE IF OccursAt(s, kw, q) /\ q + Len(kw) <= Len(s)
         THEN LET r == q + Len(kw)
                  w == SkipSpace(s, r)
              IN  IF w > Len(s) THEN << SubSeq(s, Len(s), Len(s)) >>
                  ELSE << SubSeq(s, w, Len(s)) >>
  ELSE MatchFrom(s, kw, q + 1)

Match(s, kw) == MatchFrom(s, kw, 1)

\* Lexicographic order of two strings by code unit (the default sort order).
RECURSIVE StrLess(_, _)
StrLess(s, t) ==
  IF t = <<>> THEN FALSE
  ELSE IF s = <<>> THEN TRUE
  ELSE IF CharCode(Head(s)) # CharCode(Head(t))
         THEN CharCode(Head(s)) < CharCode(Head(t))
  ELSE StrLess(Tail(s), Tail(t))

RECURSIVE InsertSorted(_, _)
InsertSorted(x, l) ==
  IF l = <<>> THEN << x >>
  ELSE IF StrLess(Head(l), x) THEN << Head(l) >> \o InsertSorted(x, Tail(l))
  ELSE << x >> \o l

\* Array.prototype.sort() of an array of strings.
RECURSIVE Sort(_)
Sort(l) == IF l = <<>> THEN <<>> ELSE InsertSorted(Head(l), Sort(Tail(l)))

\* Array.prototype.join(',')
RECURSIVE Join(_)
Join(l) ==
  IF l = <<>> THEN <<>>
  ELSE IF Len(l) = 1 THEN Head(l)
  ELSE Head(l) \o << "," >> \o Join(Tail(l))

\* Decimal digits of a natural number (template literal `${n}`).
RECURSIVE Digits(_)
Digits(n) ==
  LET d == << "0", "1", "2", "3", "4", "5", "6", "7", "8", "9" >> IN
  IF n < 10 THEN << d[n + 1] >> ELSE Digits(n \div 10) \o << d[(n % 10) + 1] >>

\* `q${n}`
QName(n) == << "q" >> \o Digits(n)

\* Membership in a Set kept as a sequence.
Has(set, x) == \E k \in 1..Len(set) : set[k] = x

\* Set.prototype.add
Add(set, x) == IF Has(set, x) THEN set ELSE Append(set, x)

\* ------------------------------------------------------- regexToNFALambda

\* newState: the State object made when the counter is n.
NewState(n, isStart, isAccept) ==
  [id |-> QName(n), isStart |-> isStart, isAccept |-> isAccept]

Transition(from, to, symbol) == [from |-> from, to |-> to, symbol |-> symbol]

\* Assignment to the isStart flag of the State object with the given id; the
\* states array of a fragment holds the same objects as its start and accept.
ClearStart(states, id) ==
  [k \in 1..Len(states) |->
     IF states[k].id = id THEN [states[k] EXCEPT !.isStart = FALSE] ELSE states[k]]

ClearAccept(states, id) ==
  [k \in 1..Len(states) |->
     IF states[k].id = id THEN [states[k] EXCEPT !.isAccept = FALSE] ELSE states[k]]

\* A builder step returns the fragment and the counter after it.
Built(frag, ctr) == [frag |-> frag, ctr |-> ctr]

\* createBasicNFA with the accept flag of the second state lost.
createBasicNFAUnflagged(symbol, ctr) ==
  LET start == NewState(ctr, TRUE, FALSE)
      accept == NewState(ctr + 1, FALSE, FALSE)
  IN  Built([start |-> start.id, accept |-> accept.id,
             states |-> << start, accept >>,
             transitions |-> << Transition(start.id, accept.id, symbol) >>],
            ctr + 2)

createBasicNFA(symbol, ctr) ==
  LET start == NewState(ctr, TRUE, FALSE)
      accept == NewState(ctr + 1, FALSE, TRUE)
  IN  Built([start |-> start.id, accept |-> accept.id,
             states |-> << start, accept >>,
             transitions |-> << Transition(start.id, accept.id, symbol) >>],
            ctr + 2)

\* concatenate without the two assignments to the flags.
concatenateKeepingFlags(nfa1, nfa2, ctr) ==
  Built([start |-> nfa1.start, accept |-> nfa2.accept,
         states |-> nfa1.states \o nfa2.states,
         transitions |-> nfa1.transitions \o nfa2.transitions
                      \o << Transition(nfa1.accept, nfa2.start, Lambda) >>],
        ctr)

concatenate(nfa1, nfa2, ctr) ==
  Built([start |-> nfa1.start, accept |-> nfa2.accept,
         states |-> ClearAccept(nfa1.states, nfa1.accept)
                      \o ClearStart(nfa2.states, nfa2.start),
         transitions |-> nfa1.transitions \o nfa2.transitions
                      \o << Transition(nfa1.accept, nfa2.start, Lambda) >>],
        ctr)

union(nfa1, nfa2, ctr) ==
  LET start == NewState(ctr, TRUE, FALSE)
      accept == NewState(ctr + 1, FALSE, TRUE)
  IN  Built([start |-> start.id, accept |-> accept.id,
             states |-> << start >>
                      \o ClearAccept(ClearStart(nfa1.states, nfa1.start), nfa1.accept)
                      \o ClearAccept(ClearStart(nfa2.states, nfa2.start), nfa2.accept)
                      \o << accept >>,
             transitions |-> nfa1.transitions \o nfa2.transitions
                      \o << Transition(start.id, nfa1.start, Lambda),
                            Transition(start.id, nfa2.start, Lambda),
                            Transition(nfa1.accept, accept.id, Lambda),
                            Transition(nfa2.accept, accept.id, Lambda) >>],
            ctr + 2)

\* kleeneStar without the bypass edge from the new start to the new accept.
kleeneStarWithoutBypass(nfa, ctr) ==
  LET start == NewState(ctr, TRUE, FALSE)
      accept == NewState(ctr + 1, FALSE, TRUE)
  IN  Built([start |-> start.id, accept |-> accept.id,
             states |-> << start >>
                      \o ClearAccept(ClearStart(nfa.states, nfa.start), nfa.accept)
                      \o << accept >>,
             transitions |-> nfa.transitions
                      \o << Transition(start.id, nfa.start, Lambda),
                            Transition(nfa.accept, nfa.start, Lambda),
                            Transition(nfa.accept, accept.id, Lambda) >>],
            ctr + 2)

kleeneStar(nfa, ctr) ==
  LET start == NewState(ctr, TRUE, FALSE)
      accept == NewState(ctr + 1, FALSE, TRUE)
  IN  Built([start |-> start.id, accept |-> accept.id,
             states |-> << start >>
                      \o ClearAccept(ClearStart(nfa.states, nfa.start), nfa.accept)
                      \o << accept >>,
             transitions |-> nfa.transitions
                      \o << Transition(start.id, nfa.start, Lambda),
                            Transition(start.id, accept.id, Lambda),
                            Transition(nfa.accept, nfa.start, Lambda),
                            Transition(nfa.accept, accept.id, Lambda) >>],
            ctr + 2)

\* kleenePlus with the bypass edge of kleeneStar from the new start to the new
\* accept state.
kleenePlusWithBypass(nfa, ctr) == kleeneStar(nfa, ctr)

kleenePlus(nfa, ctr) ==
  LET start == NewState(ctr, TRUE, FALSE)
      accept == NewState(ctr + 1, FALSE, TRUE)
  IN  Built([start |-> start.id, accept |-> accept.id,
             states |-> << start >>
                      \o ClearAccept(ClearStart(nfa.states, nfa.start), nfa.accept)
                      \o << accept >>,
             transitions |-> nfa.transitions
                      \o << Transition(start.id, nfa.start, Lambda),
                            Transition(nfa.accept, nfa.start, Lambda),
                            Transition(nfa.accept, accept.id, Lambda) >>],
            ctr + 2)

optional(nfa, ctr) ==
  LET start == NewState(ctr, TRUE, FALSE)
      accept == NewState(ctr + 1, FALSE, TRUE)
  IN  Built([start |-> start.id, accept |-> accept.id,
             states |-> << start >>
                      \o ClearAccept(ClearStart(nfa.states, nfa.start), nfa.accept)
                      \o << accept >>,
             transitions |-> nfa.transitions
                      \o << Transition(start.id, nfa.start, Lambda),
                            Transition(start.id, accept.id, Lambda),
                            Transition(nfa.accept, accept.id, Lambda) >>],
            ctr + 2)

\* A parse token: a bare literal character or a fragment already built.
LitToken(c) == [lit |-> TRUE, ch |-> c]
FragToken(f) == [lit |-> FALSE, frag |-> f]

\* typeof t === 'string' ? createBasicNFA(t) : t
TokenFragment(t, ctr) == IF t.lit THEN createBasicNFA(<< t.ch >>, ctr) ELSE Built(t.frag, ctr)

\* tokens.reduce((acc, t) => acc ? concatenate(acc, frag) : frag, null), from
\* token k on; acc is << >> for null and << fragment >> otherwise.
RECURSIVE ReduceTokens(_, _, _, _)
ReduceTokens(tokens, k, acc, ctr) ==
  IF k > Len(tokens) THEN [acc |-> acc, ctr |-> ctr]
  ELSE LET f == TokenFragment(tokens[k], ctr) IN
       IF acc = <<>> THEN ReduceTokens(tokens, k + 1, << f.frag >>, f.ctr)
       ELSE LET c == concatenate(acc[1], f.frag, f.ctr)
            IN  ReduceTokens(tokens, k + 1, << c.frag >>, c.ctr)

\* The scan for the parenthesis that closes the one before index j (0-based):
\* the value of j when the inner while loop ends.
RECURSIVE CloseIndex(_, _, _)
CloseIndex(expr, j, depth) ==
  IF j < Len(expr) /\ depth > 0
    THEN CloseIndex(expr, j + 1,
                    IF expr[j + 1] = "(" THEN depth + 1
                    ELSE IF expr[j + 1] = ")" THEN depth - 1 ELSE depth)
    ELSE j

\* The postfix operator applied to the last token.
ApplyPostfix(op, last, ctr) ==
  LET f == TokenFragment(last, ctr) IN
  CASE op = "*" -> kleeneStar(f.frag, f.ctr)
    [] op = "+" -> kleenePlus(f.frag, f.ctr)
    [] op = "?" -> optional(f.frag, f.ctr)

RECURSIVE parse(_, _)
RECURSIVE ParseLoop(_, _, _, _)

\* The while loop of parse and the reduction after it; i is 0-based.
ParseLoop(expr, i, tokens, ctr) ==
  IF i >= Len(expr)
    THEN LET r == ReduceTokens(tokens, 1, <<>>, ctr) IN
         IF r.acc = <<>> THEN createBasicNFA(Lambda, r.ctr)
         ELSE Built(r.acc[1], r.ctr)
  ELSE LET char == expr[i + 1] IN
    IF char = "("
      THEN LET j == CloseIndex(expr, i + 1, 1)
               sub == parse(Slice(expr, i + 1, j - 1), ctr)
           IN  ParseLoop(expr, j, Append(tokens, FragToken(sub.frag)), sub.ctr)
    ELSE IF char \in {"*", "+", "?"} /\ Len(tokens) > 0
      THEN LET last == tokens[Len(tokens)]
               f == ApplyPostfix(char, last, ctr)
           IN  ParseLoop(expr, i + 1,
                         Append(SubSeq(tokens, 1, Len(tokens) - 1), FragToken(f.frag)),
                         f.ctr)
    ELSE IF char = "|"
      THEN LET left == ReduceTokens(tokens, 1, <<>>, ctr)
               right == parse(Slice(expr, i + 1, Len(expr)), left.ctr)
           IN  IF left.acc = <<>> THEN right
               ELSE union(left.acc[1], right.frag, right.ctr)
    ELSE IF char # " "
      THEN ParseLoop(expr, i + 1, Append(tokens, LitToken(char)), ctr)
    ELSE ParseLoop(expr, i + 1, tokens, ctr)

parse(expr, ctr) ==
  IF Len(expr) = 0 THEN createBasicNFA(Lambda, ctr)
  ELSE ParseLoop(expr, 0, <<>>, ctr)

\* [...new Set(array)]
RECURSIVE Distinct(_)
Distinct(l) ==
  IF l = <<>> THEN <<>>
  ELSE LET d == Distinct(SubSeq(l, 1, Len(l) - 1)) IN Add(d, l[Len(l)])

Automaton(states, transitions, alphabet) ==
  [states |-> states, transitions |-> transitions, alphabet |-> alphabet]

\* AlphabetOf without the filter on the epsilon marker.
AlphabetOfUnfiltered(transitions) ==
  Distinct([k \in 1..Len(transitions) |-> transitions[k].symbol])

\* [...new Set(result.transitions.map(t => t.symbol).filter(s => s !== LAMBDA))]
AlphabetOf(transitions) ==
  Distinct(SelectSeq([k \in 1..Len(transitions) |-> transitions[k].symbol],
                     LAMBDA s : s # Lambda))

\* The automaton returned for the fragment that parse returns.
FragmentAutomaton(result) ==
  Automaton(result.states, result.transitions, AlphabetOf(result.transitions))

regexToNFALambda(regex) == FragmentAutomaton(parse(regex, 0).frag)

\* --------------------------------------------------------- epsilonClosure

\* array.forEach / array.reduce: Op applied to the elements of s in order.
\* (The test next = next makes TLC compute each value before the next
\* iteration instead of nesting the unevaluated applications.)
RECURSIVE FoldLeft(_, _, _)
FoldLeft(Op(_, _), acc, s) ==
  IF s = <<>> THEN acc
  ELSE LET next == Op(acc, Head(s)) IN
       IF next = next THEN FoldLeft(Op, next, Tail(s)) ELSE next

\* transitions.filter(t => t.from === state && t.symbol === symbol)
EdgesFrom(transitions, state, symbol) ==
  SelectSeq(transitions, LAMBDA t : t.from = state /\ t.symbol = symbol)

\* ClosureVisit that adds the state to the closure and not to the stack.
ClosureVisitNoPush(w, t) ==
  IF Has(w.closure, t.to) THEN w
  ELSE [closure |-> Append(w.closure, t.to), stack |-> w.stack]

\* The body of the forEach of epsilonClosure on one epsilon edge: w holds the
\* closure and the stack.
ClosureVisit(w, t) ==
  IF Has(w.closure, t.to) THEN w
  ELSE [closure |-> Append(w.closure, t.to), stack |-> Append(w.stack, t.to)]

\* ClosureLoop that ends after the first state popped.
ClosureLoopOnce(w, transitions) ==
  IF w.stack = <<>> THEN w.closure
  ELSE FoldLeft(ClosureVisit, w,
                EdgesFrom(transitions, w.stack[Len(w.stack)], Lambda)).closure

\* The while loop of epsilonClosure.
RECURSIVE ClosureLoop(_, _)
ClosureLoop(w, transitions) ==
  IF w.stack = <<>> THEN w.closure
  ELSE LET state == w.stack[Len(w.stack)]
           popped == [w EXCEPT !.stack = SubSeq(w.stack, 1, Len(w.stack) - 1)]
       IN  ClosureLoop(FoldLeft(ClosureVisit, popped,
                                EdgesFrom(transitions, state, Lambda)),
                       transitions)

\* epsilonClosure that follows no epsilon transition.
epsilonClosureSelf(states, transitions) == states

epsilonClosure(states, transitions) ==
  ClosureLoop([closure |-> states, stack |-> states], transitions)

\* --------------------------------------------------------- nfaLambdaToNFA

\* Reachable without the closure of the states entered.
ReachableWithoutClosure(closure, symbol, transitions) ==
  FoldLeft(LAMBDA reach, s :
             FoldLeft(LAMBDA r1, t : Add(r1, t.to),
                      reach, EdgesFrom(transitions, s, symbol)),
           <<>>, closure)

\* The states reached from the closure on one symbol, each with its closure.
Reachable(closure, symbol, transitions) ==
  FoldLeft(LAMBDA reach, s :
             FoldLeft(LAMBDA r1, t :
                        FoldLeft(Add, r1, epsilonClosure(<< t.to >>, transitions)),
                      reach, EdgesFrom(transitions, s, symbol)),
           <<>>, closure)

\* newTransitions after the reachable.forEach of one state and one symbol.
PushReachable(newTransitions, from, symbol, reachable) ==
  FoldLeft(LAMBDA nt, r :
             IF \E k \in 1..Len(nt) :
                  nt[k].from = from /\ nt[k].to = r /\ nt[k].symbol = symbol
               THEN nt
               ELSE Append(nt, Transition(from, r, symbol)),
           newTransitions, reachable)

\* A lookup that finds no accept flag.
FindIsAcceptNever(states, id) == FALSE

\* states.find(st => st.id === id)?.isAccept
FindIsAccept(states, id) ==
  IF \E k \in 1..Len(states) : states[k].id = id
    THEN LET k == CHOOSE k \in 1..Len(states) :
                    states[k].id = id /\ \A j \in 1..(k - 1) : states[j].id # id
         IN  states[k].isAccept
    ELSE FALSE

nfaLambdaToNFA(nfaLambda) ==
  LET states == nfaLambda.states
      transitions == nfaLambda.transitions
      alphabet == nfaLambda.alphabet
      newTransitions ==
        FoldLeft(LAMBDA nt, state :
                   LET closure == epsilonClosure(<< state.id >>, transitions) IN
                   FoldLeft(LAMBDA nt2, symbol :
                              PushReachable(nt2, state.id, symbol,
                                            Reachable(closure, symbol, transitions)),
                            nt, alphabet),
                 <<>>, states)
      newStates ==
        [k \in 1..Len(states) |->
           LET closure == epsilonClosure(<< states[k].id >>, transitions)
               hasAcceptInClosure ==
                 \E j \in 1..Len(closure) : FindIsAccept(states, closure[j])
           IN  [states[k] EXCEPT !.isAccept = states[k].isAccept \/ hasAcceptInClosure]]
  IN  Automaton(newStates, newTransitions, alphabet)

\* The argument of nfaLambdaToNFA with the accept flags written to its states.
nfaLambdaToNFAInPlace(nfaLambda) ==
  Automaton(nfaLambdaToNFA(nfaLambda).states, nfaLambda.transitions,
            nfaLambda.alphabet)

\* The argument of nfaLambdaToNFA as the call leaves it.  The function pushes
\* to newTransitions and adds to reachable, both its own; states.map builds
\* the new states with a spread and assigns no field of a state of the
\* argument; the alphabet array is read and returned, never written.
nfaLambdaToNFAInput(nfaLambda) ==
  Automaton(nfaLambda.states, nfaLambda.transitions, nfaLambda.alphabet)

\* --------------------------------------------------------------- nfaToDFA

\* [...set].sort().join(',')
SetKey(set) == Join(Sort(set))

\* key || sentinel: the empty string is falsy.
OrEmptySet(key) == IF key = <<>> THEN << EmptySetChar >> ELSE key

\* Map.prototype.has / get / set on a Map kept as a sequence of entries.
MapHas(map, key) == \E k \in 1..Len(map) : map[k].key = key

MapGet(map, key) == map[CHOOSE k \in 1..Len(map) : map[k].key = key].value

MapSet(map, key, value) ==
  IF MapHas(map, key)
    THEN [k \in 1..Len(map) |->
            IF map[k].key = key THEN [key |-> key, value |-> value] ELSE map[k]]
    ELSE Append(map, [key |-> key, value |-> value])

\* states.some(s => set.has(s.id) && s.isAccept)
SomeAccept(states, set) ==
  \E k \in 1..Len(states) : Has(set, states[k].id) /\ states[k].isAccept

\* The successor subset of currentSet on one symbol.
NextSet(currentSet, symbol, transitions) ==
  FoldLeft(LAMBDA ns, stateId :
             FoldLeft(LAMBDA ns2, t : Add(ns2, t.to),
                      ns, EdgesFrom(transitions, stateId, symbol)),
           <<>>, currentSet)

\* The body of alphabet.forEach for the dequeued subset; w holds the queue,
\* dfaStates and dfaTransitions.
SubsetStep(w, currentSet, symbol, nfa) ==
  LET currentKey == OrEmptySet(SetKey(currentSet))
      nextSet == NextSet(currentSet, symbol, nfa.transitions)
      nextKey == OrEmptySet(SetKey(nextSet))
      isNew == ~MapHas(w.dfaStates, nextKey) /\ Len(nextSet) > 0
  IN  [queue |-> IF isNew THEN Append(w.queue, nextSet) ELSE w.queue,
       dfaStates |->
         IF isNew
           THEN MapSet(w.dfaStates, nextKey,
                       [id |-> nextKey, isStart |-> FALSE,
                        isAccept |-> SomeAccept(nfa.states, nextSet)])
           ELSE w.dfaStates,
       dfaTransitions |->
         IF Len(nextSet) > 0
           THEN Append(w.dfaTransitions, Transition(currentKey, nextKey, symbol))
           ELSE w.dfaTransitions]

\* The while loop of nfaToDFA.
RECURSIVE SubsetLoop(_, _)
SubsetLoop(w, nfa) ==
  IF w.queue = <<>> THEN w
  ELSE LET currentSet == Head(w.queue)
           shifted == [w EXCEPT !.queue = Tail(w.queue)]
       IN  SubsetLoop(FoldLeft(LAMBDA w2, symbol : SubsetStep(w2, currentSet, symbol, nfa),
                               shifted, nfa.alphabet),
                      nfa)

\* The subsets discovered by nfaToDFA before the renaming pass.
SubsetConstruction(nfa, startState) ==
  LET startSet == << startState.id >>
      startSetKey == SetKey(startSet)
  IN  SubsetLoop([queue |-> << startSet >>,
                  dfaStates |-> MapSet(<<>>, startSetKey,
                                       [id |-> OrEmptySet(startSetKey),
                                        isStart |-> TRUE,
                                        isAccept |-> SomeAccept(nfa.states, startSet)]),
                  dfaTransitions |-> <<>>],
                 nfa)

\* stateMapping: the k-th key of dfaStates is mapped to q(k-1).
StateMapping(dfaStates) ==
  [k \in 1..Len(dfaStates) |-> [key |-> dfaStates[k].key, value |-> QName(k - 1)]]

\* stateMapping.get(id) || id
Renamed(stateMapping, id) ==
  IF MapHas(stateMapping, id) THEN MapGet(stateMapping, id) ELSE id

\* The renaming pass of nfaToDFA.
RenameDFA(w, alphabet) ==
  LET stateMapping == StateMapping(w.dfaStates)
      renamedStates ==
        [k \in 1..Len(w.dfaStates) |->
           [w.dfaStates[k].value EXCEPT
              !.id = Renamed(stateMapping, w.dfaStates[k].value.id)]]
      renamedTransitions ==
        [k \in 1..Len(w.dfaTransitions) |->
           [w.dfaTransitions[k] EXCEPT
              !.from = Renamed(stateMapping, w.dfaTransitions[k].from),
              !.to = Renamed(stateMapping, w.dfaTransitions[k].to)]]
  IN  Automaton(renamedStates, renamedTransitions, alphabet)

\* A lookup that falls back on the first state.
FindStartOrFirst(states) ==
  IF \E k \in 1..Len(states) : states[k].isStart
    THEN << states[CHOOSE k \in 1..Len(states) :
                     states[k].isStart /\ \A j \in 1..(k - 1) : ~states[j].isStart] >>
    ELSE IF states = <<>> THEN <<>> ELSE << states[1] >>

\* states.find(s => s.isStart): << >> for undefined, << state >> otherwise.
FindStart(states) ==
  IF \E k \in 1..Len(states) : states[k].isStart
    THEN << states[CHOOSE k \in 1..Len(states) :
                     states[k].isStart /\ \A j \in 1..(k - 1) : ~states[j].isStart] >>
    ELSE <<>>

nfaToDFA(nfa) ==
  LET startState == FindStart(nfa.states) IN
  IF startState = <<>> THEN Automaton(<<>>, <<>>, nfa.alphabet)
  ELSE RenameDFA(SubsetConstruction(nfa, startState[1]), nfa.alphabet)

\* The argument of nfaToDFA as the call leaves it.  The function writes to
\* dfaStates, dfaTransitions, queue and stateMapping, all its own, and reads
\* states, transitions and alphabet of the argument.
nfaToDFAInput(nfa) == Automaton(nfa.states, nfa.transitions, nfa.alphabet)

\* --------------------------------------------------------- validateString

\* A lookup that takes the first transition of the state on any symbol.
FindTransitionAnySymbol(transitions, currentState, symbol) ==
  LET m == SelectSeq(transitions, LAMBDA t : t.from = currentState) IN
  IF m = <<>> THEN <<>> ELSE << m[1] >>

\* dfa.transitions.find(t => t.from === currentState && t.symbol === symbol)
FindTransition(transitions, currentState, symbol) ==
  LET m == EdgesFrom(transitions, currentState, symbol) IN
  IF m = <<>> THEN <<>> ELSE << m[1] >>

\* The for loop of validateString from input position k on: << >> when a
\* transition is missing (return false), << state id >> after the last symbol.
RECURSIVE Walk(_, _, _, _)
Walk(transitions, currentState, input, k) ==
  IF k > Len(input) THEN << currentState >>
  ELSE LET transition == FindTransition(transitions, currentState, << input[k] >>) IN
       IF transition = <<>> THEN <<>>
       ELSE Walk(transitions, transition[1].to, input, k + 1)

validateString(dfa, input) ==
  LET startState == FindStart(dfa.states) IN
  IF startState = <<>> THEN FALSE
  ELSE LET final == Walk(dfa.transitions, startState[1].id, input, 1) IN
       IF final = <<>> THEN FALSE ELSE FindIsAccept(dfa.states, final[1])

\* ---------------------------------------------------------- parseEdgeList

\* input.trim().split('\n').filter(l => l.trim())
EdgeLines(input) == SelectSeq(SplitLines(Trim(input)), LAMBDA l : Trim(l) # <<>>)

\* Whether the states Map has the id, and the Map with a state added under it.
HasState(states, id) == \E k \in 1..Len(states) : states[k].id = id

\* NormalizeSymbol that knows the epsilon glyph and not the letter e.
NormalizeSymbolGlyphOnly(symbol) ==
  IF symbol = << EpsilonChar >> THEN Lambda ELSE symbol

\* symbol === 'e' || symbol === EPSILON ? LAMBDA : symbol
NormalizeSymbol(symbol) ==
  IF symbol = << "e" >> \/ symbol = << EpsilonChar >> THEN Lambda ELSE symbol

\* symbol !== LAMBDA && symbol !== 'e' && symbol !== EPSILON
IsAlphabetSymbol(symbol) ==
  symbol # Lambda /\ symbol # << "e" >> /\ symbol # << EpsilonChar >>

\* if (!states.has(id)) states.set(id, { id, isStart, isAccept: false })
RegisterState(states, id, isStart) ==
  IF HasState(states, id) THEN states
  ELSE Append(states, [id |-> id, isStart |-> isStart, isAccept |-> FALSE])

\* The body of the if (parts.length >= 3) block.
AddEdge(w, from, symbol, to, index) ==
  [states |-> RegisterState(RegisterState(w.states, from, index = 0), to, FALSE),
   transitions |-> Append(w.transitions, Transition(from, to, NormalizeSymbol(symbol))),
   alphabet |-> IF IsAlphabetSymbol(symbol) THEN Add(w.alphabet, symbol) ELSE w.alphabet]

\* const [from, symbol, to] = parts, when there are three parts or more.
EdgeParts(w, parts, index) ==
  IF Len(parts) >= 3 THEN AddEdge(w, parts[1], parts[2], parts[3], index) ELSE w

\* The body of the first lines.forEach for the line at 0-based index; w holds
\* states, transitions and alphabet.
EdgeLine(w, line, index) == EdgeParts(w, SplitFields(Trim(line)), index)

RECURSIVE EdgeLinesFrom(_, _, _)
EdgeLinesFrom(w, lines, k) ==
  IF k > Len(lines) THEN w
  ELSE EdgeLinesFrom(EdgeLine(w, lines[k], k - 1), lines, k + 1)

\* The states as the first loop left them, no start mark added.
MarkFirstStartSkipped(states) == states

\* stateArray[0].isStart = true
MarkFirstStart(states) ==
  IF Len(states) > 0 THEN [states EXCEPT ![1].isStart = TRUE] ELSE states

\* DirectiveMatch without the final: keyword.
DirectiveMatchAcceptOnly(line) ==
  Match(line, << "a", "c", "c", "e", "p", "t", ":" >>)

\* line.match(/accept:\s*(.+)/i) || line.match(/final:\s*(.+)/i)
DirectiveMatch(line) ==
  LET a == Match(line, << "a", "c", "c", "e", "p", "t", ":" >>) IN
  IF a # <<>> THEN a ELSE Match(line, << "f", "i", "n", "a", "l", ":" >>)

\* const state = states.get(s.trim()); if (state) state.isAccept = true
MarkAccept(states, s) ==
  [k \in 1..Len(states) |->
     IF states[k].id = Trim(s) THEN [states[k] EXCEPT !.isAccept = TRUE] ELSE states[k]]

\* The body of the second lines.forEach.
DirectiveLine(states, line) ==
  LET match == DirectiveMatch(line) IN
  IF match # <<>> THEN FoldLeft(MarkAccept, states, SplitIds(match[1])) ELSE states

\* AcceptFallback applied whether or not a state is accept already.
AcceptFallbackAlways(states) ==
  IF Len(states) > 0
    THEN [states EXCEPT ![Len(states)].isAccept = TRUE]
    ELSE states

\* The last state is marked accept when no state is.
AcceptFallback(states) ==
  IF (~\E k \in 1..Len(states) : states[k].isAccept) /\ Len(states) > 0
    THEN [states EXCEPT ![Len(states)].isAccept = TRUE]
    ELSE states

\* The automaton returned once the first loop has left w.
EdgeAutomaton(w, lines) ==
  Automaton(AcceptFallback(FoldLeft(DirectiveLine, MarkFirstStart(w.states), lines)),
            w.transitions, w.alphabet)

\* The two loops over the lines.
ParsedLines(lines) ==
  EdgeAutomaton(EdgeLinesFrom([states |-> <<>>, transitions |-> <<>>, alphabet |-> <<>>],
                              lines, 1),
                lines)

parseEdgeList(input) == ParsedLines(EdgeLines(input))

\* ------------------------------------------------------------------ inputs

\* All strings over the characters chars of length at most n.
RECURSIVE StringsUpTo(_, _)
StringsUpTo(chars, n) ==
  IF n = 0 THEN { <<>> }
  ELSE LET shorter == StringsUpTo(chars, n - 1) IN
       shorter \cup { Append(s, c) : s \in shorter, c \in chars }

RegexChars == { "a", "b", "(", ")", "|", "*", "+", "?", " " }

\* The regular expressions of the documented scenarios.
RegexABB == << "(", "a", "|", "b", ")", "*", "a", "b", "b" >>
RegexAsBs == << "a", "*", "b", "*" >>
RegexABPlus == << "(", "a", "b", ")", "+" >>

RegexSamples ==
  { RegexABB, RegexAsBs, RegexABPlus,
    << "a", "b", "*" >>, << "a", "|", "b", "c" >>,
    << "(", "a", "|", "b" >>, << "(", "(", "a", ")" >>, << "a", "|", "*", "b" >>,
    << "(", "a", "?", "|", " ", ")", "b" >>,
    << "a", "*", "*" >>, << LambdaChar, "a" >>, << "a", "|", "a" >>,
    << "a", "\t", "b" >>, << "a", " ", "*", " ", "b" >>, << "(", "a", " " >>,
    << "a", "?", "+" >>, << "(", "a", "b", ")", "?", "b" >> }

RegexInputs == StringsUpTo(RegexChars, MaxRegexLen) \cup RegexSamples

\* The lines an edge list is made of.  Each line has its text and what the
\* documented format says it is: a transition (with its three fields), an
\* accept directive (with the ids it lists), or a line of fewer than three
\* fields.
TransitionLine(text, from, symbol, to) ==
  [text |-> text, kind |-> "transition", from |-> from, symbol |-> symbol, to |-> to,
   ids |-> {}]

DirectiveLineOf(text, ids) ==
  [text |-> text, kind |-> "directive", from |-> <<>>, symbol |-> <<>>, to |-> <<>>,
   ids |-> ids]

ShortLine(text) ==
  [text |-> text, kind |-> "short", from |-> <<>>, symbol |-> <<>>, to |-> <<>>,
   ids |-> {}]

Q0 == << "q", "0" >>
Q1 == << "q", "1" >>
Q2 == << "q", "2" >>

EdgeLineSet ==
  { \* q0, a, q1
    TransitionLine(<< "q", "0", ",", " ", "a", ",", " ", "q", "1" >>, Q0, << "a" >>, Q1),
    \* q1, b, q2
    TransitionLine(<< "q", "1", ",", " ", "b", ",", " ", "q", "2" >>, Q1, << "b" >>, Q2),
    \* q0 a q0
    TransitionLine(<< "q", "0", " ", "a", " ", "q", "0" >>, Q0, << "a" >>, Q0),
    \* q1 e q0
    TransitionLine(<< "q", "1", " ", "e", " ", "q", "0" >>, Q1, Lambda, Q0),
    \* q0,EPSILON,q2
    TransitionLine(<< "q", "0", ",", EpsilonChar, ",", "q", "2" >>, Q0, Lambda, Q2),
    \* ,a,   (the empty id on both sides)
    TransitionLine(<< ",", "a", "," >>, <<>>, << "a" >>, <<>>),
    \* EMPTYSET,a,
    TransitionLine(<< EmptySetChar, ",", "a", "," >>, << EmptySetChar >>, << "a" >>, <<>>),
    \* accept: q2
    DirectiveLineOf(<< "a", "c", "c", "e", "p", "t", ":", " ", "q", "2" >>, { Q2 }),
    \* accept: q1, q2
    DirectiveLineOf(<< "a", "c", "c", "e", "p", "t", ":", " ", "q", "1", ",", " ", "q", "2" >>,
                    { Q1, Q2 }),
    \* FINAL:q0
    DirectiveLineOf(<< "F", "I", "N", "A", "L", ":", "q", "0" >>, { Q0 }),
    \* final: x
    DirectiveLineOf(<< "f", "i", "n", "a", "l", ":", " ", "x" >>, { << "x" >> }),
    \* q0 a
    ShortLine(<< "q", "0", " ", "a" >>),
    \* q0 LAMBDA q1
    TransitionLine(<< "q", "0", " ", LambdaChar, " ", "q", "1" >>, Q0, Lambda, Q1) }

\* The lines joined by line breaks: the text of an edge list.
RECURSIVE EdgeText(_)
EdgeText(lines) ==
  IF lines = <<>> THEN <<>>
  ELSE IF Len(lines) = 1 THEN lines[1].text
  ELSE lines[1].text \o << NL >> \o EdgeText(Tail(lines))

\* The edge list of the documented round trip: q0, a, q1 / q1, b, q2 / accept: q2
RoundTripLines ==
  << TransitionLine(<< "q", "0", ",", " ", "a", ",", " ", "q", "1" >>, Q0, << "a" >>, Q1),
     TransitionLine(<< "q", "1", ",", " ", "b", ",", " ", "q", "2" >>, Q1, << "b" >>, Q2),
     DirectiveLineOf(<< "a", "c", "c", "e", "p", "t", ":", " ", "q", "2" >>, { Q2 }) >>

RECURSIVE LineSeqsUpTo(_)
LineSeqsUpTo(n) ==
  IF n = 0 THEN { <<>> }
  ELSE LET shorter == LineSeqsUpTo(n - 1) IN
       shorter \cup { Append(s, l) : s \in shorter, l \in EdgeLineSet }

EdgeInputs == LineSeqsUpTo(MaxLines) \cup { RoundTripLines }

TestChars == { "a", "b" }

\* The strings typed into the test field.
TestStrings == { <<>>, << "a", "b" >> }

\* ------------------------------------------------------------- the program

VARIABLES
  input,             \* the text of the active tab, and the tab
  nfaLambda,         \* Index: useState<Automaton | null>, << >> for null
  nfa,
  dfa,
  toast,             \* the last notification
  testString,        \* InputPanel: useState('')
  validationResult   \* InputPanel: useState<boolean | null>, << >> for null

vars == << input, nfaLambda, nfa, dfa, toast, testString, validationResult >>

RegexInput(regex) == [kind |-> "regex", text |-> regex, lines |-> <<>>]

EdgeInput(lines) == [kind |-> "edges", text |-> EdgeText(lines), lines |-> lines]

\* The state after construction, for each text the user submits.
Init ==
  /\ input \in { RegexInput(regex) : regex \in RegexInputs }
                 \cup { EdgeInput(lines) : lines \in EdgeInputs }
  /\ nfaLambda = <<>>
  /\ nfa = <<>>
  /\ dfa = <<>>
  /\ toast = "none"
  /\ testString = <<>>
  /\ validationResult = <<>>

\* handleRegexSubmit with a state counter that outlives the invocation: it
\* goes on from the number of states of the automaton built before.
handleRegexSubmitSharedCounter(regex) ==
  /\ nfaLambda' = << FragmentAutomaton(
                       parse(regex, IF nfaLambda = <<>> THEN 0
                                    ELSE Len(nfaLambda[1].states)).frag) >>
  /\ nfa' = << nfaToDFAInput(nfaLambdaToNFA(nfaLambda'[1])) >>
  /\ dfa' = << nfaToDFA(nfa'[1]) >>
  /\ toast' = "success"

\* Index.handleRegexSubmit.  No statement of regexToNFALambda, nfaLambdaToNFA
\* or nfaToDFA throws, so the try block always runs to its end.  setNfaLambda
\* and setNfa store the objects the conversions were called on, as the calls
\* left them.
handleRegexSubmit(regex) ==
  /\ nfaLambda' = << nfaLambdaToNFAInput(regexToNFALambda(regex)) >>
  /\ nfa' = << nfaToDFAInput(nfaLambdaToNFA(nfaLambda'[1])) >>
  /\ dfa' = << nfaToDFA(nfa'[1]) >>
  /\ toast' = "success"

\* Index.handleEdgeListSubmit.  No statement of parseEdgeList throws either.
handleEdgeListSubmit(edges) ==
  /\ nfaLambda' = << nfaLambdaToNFAInput(parseEdgeList(edges)) >>
  /\ nfa' = << nfaToDFAInput(nfaLambdaToNFA(nfaLambda'[1])) >>
  /\ dfa' = << nfaToDFA(nfa'[1]) >>
  /\ toast' = "success"

\* The onRegexSubmit property of the panel, called with the text as it is.
onRegexSubmit ==
  /\ input.kind = "regex"
  /\ handleRegexSubmit(input.text)
  /\ UNCHANGED << input, testString, validationResult >>

\* The onEdgeListSubmit property of the panel, called with the text as it is.
onEdgeListSubmit ==
  /\ input.kind = "edges"
  /\ handleEdgeListSubmit(input.text)
  /\ UNCHANGED << input, testString, validationResult >>

\* handleSubmit without setValidationResult(null).
handleSubmitKeepingResult ==
  /\ \E text \in { Trim(input.text) } :
       /\ text # <<>>
       /\ IF input.kind = "regex" THEN handleRegexSubmit(text)
          ELSE handleEdgeListSubmit(text)
  /\ testString' = <<>>
  /\ UNCHANGED << input, validationResult >>

\* InputPanel.handleSubmit, behind the button that is disabled while nothing
\* is left of the text after trimming: the trimmed text of the active tab is
\* handed on, and the test field and its result are reset.
handleSubmit ==
  /\ \E text \in { Trim(input.text) } :
       /\ text # <<>>
       /\ IF input.kind = "regex" THEN handleRegexSubmit(text)
          ELSE handleEdgeListSubmit(text)
  /\ validationResult' = <<>>
  /\ testString' = <<>>
  /\ UNCHANGED input

\* The onChange handler of the test field.
setTestString(s) ==
  /\ testString' = s
  /\ validationResult' = <<>>
  /\ UNCHANGED << input, nfaLambda, nfa, dfa, toast >>

\* InputPanel.handleValidate
handleValidate ==
  /\ dfa # <<>>
  /\ validationResult' = << validateString(dfa[1], testString) >>
  /\ UNCHANGED << input, nfaLambda, nfa, dfa, toast, testString >>

Next ==
  \/ onRegexSubmit
  \/ onEdgeListSubmit
  \/ handleSubmit
  \/ \E s \in TestStrings : setTestString(s)
  \/ handleValidate

Spec == Init /\ [][Next]_vars

\* -------------------------------------------------------- the input panel

\* The texts typed into the panel in one session.
PanelInputs ==
  { RegexInput(<< "a", "b", "*" >>), RegexInput(RegexAsBs), RegexInput(<< "a" >>),
    RegexInput(<< "(", "a", " " >>), EdgeInput(RoundTripLines),
    EdgeInput(<< ShortLine(<< "q", "0", " ", "a" >>) >>) }

InitPanel ==
  /\ input \in PanelInputs
  /\ nfaLambda = <<>>
  /\ nfa = <<>>
  /\ dfa = <<>>
  /\ toast = "none"
  /\ testString = <<>>
  /\ validationResult = <<>>

\* The onChange handlers of the regex field and of the edge list field and
\* the change of tab: the text to submit is another one, nothing else moves.
setInput(i) ==
  /\ input' = i
  /\ UNCHANGED << nfaLambda, nfa, dfa, toast, testString, validationResult >>

\* What the user can do in the panel: type an input, press the submit button,
\* type a test string, press validate.
NextPanel ==
  \/ \E i \in PanelInputs : setInput(i)
  \/ handleSubmit
  \/ \E s \in TestStrings : setTestString(s)
  \/ handleValidate

SpecPanel == InitPanel /\ [][NextPanel]_vars

\* ------------------------------------------------------ reference semantics

Range(seq) == { seq[k] : k \in 1..Len(seq) }

StartIds(A) == { st.id : st \in { x \in Range(A.states) : x.isStart } }

AcceptIds(A) == { st.id : st \in { x \in Range(A.states) : x.isAccept } }

\* The states entered from a state of S by one transition on the symbol.
Targets(A, S, symbol) ==
  { t.to : t \in { x \in Range(A.transitions) : x.from \in S /\ x.symbol = symbol } }

\* The states reached from S by zero or more epsilon transitions.
RECURSIVE LambdaReach(_, _)
LambdaReach(A, S) ==
  LET more == S \cup Targets(A, S, Lambda) IN
  IF more = S THEN S ELSE LambdaReach(A, more)

\* Brute-force simulation of an automaton without epsilon moves: the set of
\* current states after reading s from position k on.
RECURSIVE NfaRun(_, _, _, _)
NfaRun(A, S, s, k) ==
  IF k > Len(s) THEN S ELSE NfaRun(A, Targets(A, S, << s[k] >>), s, k + 1)

NfaAccepts(A, s) == NfaRun(A, StartIds(A), s, 1) \cap AcceptIds(A) # {}

\* The same for an automaton with epsilon moves, taken without reading input.
RECURSIVE LambdaRun(_, _, _, _)
LambdaRun(A, S, s, k) ==
  IF k > Len(s) THEN S
  ELSE LambdaRun(A, LambdaReach(A, Targets(A, S, << s[k] >>)), s, k + 1)

LambdaAccepts(A, s) ==
  LambdaRun(A, LambdaReach(A, StartIds(A)), s, 1) \cap AcceptIds(A) # {}

\* The strings the claims are checked on.
AllStrings == StringsUpTo(TestChars, MaxStrLen)

Submitted == dfa # <<>>

\* ------------------------------------------------------------------ claims

\* C1: for every NFA the pipeline produces and every string s up to the
\* bound, validateString on the DFA built from it answers true exactly when
\* the brute-force simulation of the NFA ends in a set with an accept state.
C1_DfaAgreesWithNfa ==
  Submitted =>
    \A s \in AllStrings : validateString(dfa[1], s) = NfaAccepts(nfa[1], s)

\* C2: nfaLambdaToNFA preserves the language: a string up to the bound is
\* accepted by the automaton with epsilon moves exactly when it is accepted
\* by the returned automaton.
C2_ReducerPreservesLanguage ==
  Submitted =>
    \A s \in AllStrings : LambdaAccepts(nfaLambda[1], s) = NfaAccepts(nfa[1], s)

\* A submitted automaton with an epsilon move on the way to acceptance: it
\* accepts a non-empty string, and its reduction has lost all epsilon moves.
C2_Witness ==
  /\ Submitted
  /\ \E t \in Range(nfaLambda[1].transitions) : t.symbol = Lambda
  /\ \A t \in Range(nfa[1].transitions) : t.symbol # Lambda
  /\ \E s \in AllStrings : s # <<>> /\ LambdaAccepts(nfaLambda[1], s)

\* C3: in every automaton returned by nfaToDFA no two transitions share
\* their from state and their symbol.
C3_DfaDeterministic ==
  Submitted =>
    \A i, j \in 1..Len(dfa[1].transitions) :
      ( /\ dfa[1].transitions[i].from = dfa[1].transitions[j].from
        /\ dfa[1].transitions[i].symbol = dfa[1].transitions[j].symbol ) => i = j

\* The nesting depth of parentheses after each prefix never drops below zero
\* and ends at zero.
RECURSIVE Balanced(_, _, _)
Balanced(regex, k, depth) ==
  IF depth < 0 THEN FALSE
  ELSE IF k > Len(regex) THEN depth = 0
  ELSE Balanced(regex, k + 1,
                IF regex[k] = "(" THEN depth + 1
                ELSE IF regex[k] = ")" THEN depth - 1 ELSE depth)

\* A quantifier that no operand precedes: nothing but spaces, an opening
\* parenthesis or a bar stands before it.
DanglingQuantifier(regex) ==
  LET r == SelectSeq(regex, LAMBDA c : c # " ") IN
  \E k \in 1..Len(r) :
    r[k] \in { "*", "+", "?" } /\ (k = 1 \/ r[k - 1] \in { "(", "|" })

Malformed(regex) == ~Balanced(regex, 1, 0) \/ DanglingQuantifier(regex)

\* C4: regexToNFALambda on a malformed regex ends in a failure the handler
\* catches, and no automaton is returned for it.
C4_MalformedRegexFails ==
  (input.kind = "regex" /\ Malformed(input.text) /\ toast # "none") =>
    (toast = "error" /\ nfaLambda = <<>>)

\* The languages of the three documented regular expressions.
InABB(s) ==
  Len(s) >= 3 /\ SubSeq(s, Len(s) - 2, Len(s)) = << "a", "b", "b" >>

InAsBs(s) == \A i, j \in 1..Len(s) : (i < j /\ s[i] = "b") => s[j] # "a"

InABPlus(s) ==
  /\ Len(s) >= 2
  /\ Len(s) % 2 = 0
  /\ \A k \in 1..Len(s) : s[k] = (IF k % 2 = 1 THEN "a" ELSE "b")

\* The sample strings of the documented scenarios that the bound leaves out.
SampleStrings ==
  { << "a", "b", "b" >>, << "a", "a", "b", "b" >>, << "b", "a", "b", "b" >>,
    << "a", "b" >>, << "a", "b", "b", "a" >>, <<>>,
    << "a", "a", "a" >>, << "b", "b", "b" >>, << "a", "a", "a", "b", "b", "b" >>,
    << "b", "a" >>, << "a", "b", "a" >>,
    << "a", "b", "a", "b" >>, << "a" >> }

\* C5: the DFA derived from each of (a|b)*abb, a*b* and (ab)+ accepts exactly
\* the strings of the language among all strings over {a, b} up to the bound
\* and among the documented sample strings.
C5_RegexScenarios ==
  Submitted =>
    \A s \in AllStrings \cup SampleStrings :
      /\ input = RegexInput(RegexABB) => validateString(dfa[1], s) = InABB(s)
      /\ input = RegexInput(RegexAsBs) => validateString(dfa[1], s) = InAsBs(s)
      /\ input = RegexInput(RegexABPlus) => validateString(dfa[1], s) = InABPlus(s)

\* The DFA of (ab)+ has been asked about ab and has accepted it.
C5_Witness ==
  /\ input = RegexInput(RegexABPlus)
  /\ testString = << "a", "b" >>
  /\ validationResult = << TRUE >>

\* C6 as stated: the automaton of the empty regex has a single state that is
\* both start and accept, and the derived DFA accepts only the empty string.
C6_EmptyRegexSingleState ==
  (input = RegexInput(<<>>) /\ Submitted) =>
    /\ Len(nfaLambda[1].states) = 1
    /\ nfaLambda[1].states[1].isStart /\ nfaLambda[1].states[1].isAccept
    /\ \A s \in AllStrings : validateString(dfa[1], s) = (s = <<>>)

\* C6: the automaton of the empty regex has two states, the start state q0
\* and the accept state q1, joined by one epsilon transition, and an empty
\* alphabet; the DFA derived from it has a single state that is both start
\* and accept, and accepts the empty string and no other string.
C6_EmptyRegexTwoStates ==
  (input = RegexInput(<<>>) /\ Submitted) =>
    /\ nfaLambda[1].states =
         << [id |-> Q0, isStart |-> TRUE, isAccept |-> FALSE],
            [id |-> Q1, isStart |-> FALSE, isAccept |-> TRUE] >>
    /\ nfaLambda[1].transitions = << [from |-> Q0, to |-> Q1, symbol |-> Lambda] >>
    /\ nfaLambda[1].alphabet = <<>>
    /\ Len(dfa[1].states) = 1
    /\ dfa[1].states[1].isStart /\ dfa[1].states[1].isAccept
    /\ \A s \in AllStrings : validateString(dfa[1], s) = (s = <<>>)

\* The empty regex has been submitted and its DFA has accepted the empty
\* string.
C6_Witness ==
  /\ input = RegexInput(<<>>)
  /\ testString = <<>>
  /\ validationResult = << TRUE >>

\* A from, symbol, to line with both ids present.
WellFormed(line) == line.kind = "transition" /\ line.from # <<>> /\ line.to # <<>>

\* One or more well-formed transition lines followed by one directive with a
\* single id.
RoundTripShape(lines) ==
  /\ Len(lines) >= 2
  /\ \A k \in 1..(Len(lines) - 1) : WellFormed(lines[k])
  /\ lines[Len(lines)].kind = "directive"
  /\ Cardinality(lines[Len(lines)].ids) = 1

\* The ids written in the transition lines.
WrittenIds(lines) ==
  UNION { { l.from, l.to } : l \in { x \in Range(lines) : x.kind = "transition" } }

\* What the parser is to return for lines of the round-trip shape: one
\* transition per line in order, one state per written id, the from state of
\* the first line as the start state and the listed id as the accept state.
RoundTrip(lines, A) ==
  /\ A.transitions =
       [k \in 1..(Len(lines) - 1) |->
          [from |-> lines[k].from, to |-> lines[k].to, symbol |-> lines[k].symbol]]
  /\ Len(A.states) = Cardinality(WrittenIds(lines))
  /\ { st.id : st \in Range(A.states) } = WrittenIds(lines)
  /\ StartIds(A) = { lines[1].from }
  /\ AcceptIds(A) = lines[Len(lines)].ids

\* The DFA of the documented edge list accepts ab and no other string.
RoundTripDFA ==
  input.lines = RoundTripLines =>
    \A s \in AllStrings : validateString(dfa[1], s) = (s = << "a", "b" >>)

\* C7 as stated: for well-formed transition lines followed by one directive
\* with a single id the parser returns one transition per line, the start
\* state of the first line and the listed id as the only accept state; the
\* DFA of q0, a, q1 / q1, b, q2 / accept: q2 accepts ab and nothing else.
C7_EdgeListRoundTrip ==
  (input.kind = "edges" /\ Submitted /\ RoundTripShape(input.lines)) =>
    (RoundTrip(input.lines, nfaLambda[1]) /\ RoundTripDFA)

\* C7: the same for a directive whose id is written in one of the transition
\* lines.
C7_EdgeListRoundTripKnownId ==
  ( /\ input.kind = "edges" /\ Submitted /\ RoundTripShape(input.lines)
    /\ input.lines[Len(input.lines)].ids \subseteq WrittenIds(input.lines) ) =>
    (RoundTrip(input.lines, nfaLambda[1]) /\ RoundTripDFA)

\* The documented edge list has been submitted and its DFA has accepted ab.
C7_Witness ==
  /\ input.kind = "edges"
  /\ input.lines = RoundTripLines
  /\ testString = << "a", "b" >>
  /\ validationResult = << TRUE >>

\* The edge list without its directive lines.
WithoutDirectives(lines) == SelectSeq(lines, LAMBDA l : l.kind # "directive")

\* C8: a line holding an accept: or final: directive adds no transition,
\* registers no state and adds no symbol: the parser returns the transitions,
\* the state ids and the alphabet it returns for the edge list without the
\* directive lines.
C8_DirectiveNotTransition ==
  (input.kind = "edges" /\ Submitted) =>
    LET other == parseEdgeList(EdgeText(WithoutDirectives(input.lines))) IN
    /\ nfaLambda[1].transitions = other.transitions
    /\ [k \in 1..Len(nfaLambda[1].states) |-> nfaLambda[1].states[k].id]
         = [k \in 1..Len(other.states) |-> other.states[k].id]
    /\ nfaLambda[1].alphabet = other.alphabet

\* C9: an edge list with a transition line yields exactly one start state,
\* the from state of its first transition line.
C9_StartIsFirstState ==
  ( /\ input.kind = "edges" /\ Submitted
    /\ \E k \in 1..Len(input.lines) : input.lines[k].kind = "transition" ) =>
    LET first == CHOOSE k \in 1..Len(input.lines) :
                   /\ input.lines[k].kind = "transition"
                   /\ \A j \in 1..(k - 1) : input.lines[j].kind # "transition"
    IN  /\ Cardinality({ k \in 1..Len(nfaLambda[1].states) :
                           nfaLambda[1].states[k].isStart }) = 1
        /\ StartIds(nfaLambda[1]) = { input.lines[first].from }

\* The ids listed in the directive lines.
ListedIds(lines) ==
  UNION { l.ids : l \in { x \in Range(lines) : x.kind = "directive" } }

OnlyLastAccepts(A) ==
  \A k \in 1..Len(A.states) : A.states[k].isAccept <=> k = Len(A.states)

ListedAccept(lines, A) ==
  \A k \in 1..Len(A.states) : A.states[k].isAccept <=> A.states[k].id \in ListedIds(lines)

\* C10 as stated: the last state is the only accept state exactly when the
\* edge list has no directive line; with a directive line a state is accept
\* exactly when a directive lists its id.
C10_FallbackWithoutDirective ==
  (input.kind = "edges" /\ Submitted /\ nfaLambda[1].states # <<>>) =>
    IF \A k \in 1..Len(input.lines) : input.lines[k].kind # "directive"
      THEN OnlyLastAccepts(nfaLambda[1])
      ELSE ListedAccept(input.lines, nfaLambda[1])

\* C10: the last state of the returned list is the only accept state exactly
\* when no directive lists the id of a returned state; otherwise a state is
\* accept exactly when a directive lists its id.
C10_FallbackWithoutKnownId ==
  (input.kind = "edges" /\ Submitted /\ nfaLambda[1].states # <<>>) =>
    IF ListedIds(input.lines) \cap { st.id : st \in Range(nfaLambda[1].states) } = {}
      THEN OnlyLastAccepts(nfaLambda[1])
      ELSE ListedAccept(input.lines, nfaLambda[1])

\* An edge list whose only directive lists an id of no state has been parsed,
\* and the last of its several states is the accept state.
C10_Witness ==
  /\ input.kind = "edges" /\ Submitted
  /\ ListedIds(input.lines) # {}
  /\ ListedIds(input.lines) \cap { st.id : st \in Range(nfaLambda[1].states) } = {}
  /\ Len(nfaLambda[1].states) >= 2
  /\ OnlyLastAccepts(nfaLambda[1])

\* The ids of the states of an automaton.
Ids(A) == { st.id : st \in Range(A.states) }

\* The seed sets the closure is asked for: no state, one state, and two
\* states in either order.
Seeds(A) ==
  { <<>> } \cup { << x >> : x \in Ids(A) }
           \cup { << p[1], p[2] >> :
                    p \in { q \in Ids(A) \X Ids(A) : q[1] # q[2] } }

\* C11: epsilonClosure(S, T) is exactly the set of states reachable from a
\* seed of S by zero or more epsilon transitions of T: it holds every seed,
\* is closed under the epsilon edges and holds nothing else, epsilon cycles
\* or not.
C11_ClosureIsReachability ==
  Submitted =>
    \A seed \in Seeds(nfaLambda[1]) :
      LET closure == Range(epsilonClosure(seed, nfaLambda[1].transitions)) IN
      /\ Range(seed) \subseteq closure
      /\ Targets(nfaLambda[1], closure, Lambda) \subseteq closure
      /\ closure = LambdaReach(nfaLambda[1], Range(seed))

\* A state lies on a cycle of epsilon transitions.
OnLambdaCycle(A, id) == id \in LambdaReach(A, Targets(A, { id }, Lambda))

\* An automaton with an epsilon cycle has been built, and the closure of one
\* of its states holds three states or more.
C11_Witness ==
  /\ Submitted
  /\ \E id \in Ids(nfaLambda[1]) :
       /\ OnLambdaCycle(nfaLambda[1], id)
       /\ Len(epsilonClosure(<< id >>, nfaLambda[1].transitions)) >= 3

\* C12: epsilonClosure is idempotent: the closure of a closure is the same
\* set of states.
C12_ClosureIdempotent ==
  Submitted =>
    \A seed \in Seeds(nfaLambda[1]) :
      LET closure == epsilonClosure(seed, nfaLambda[1].transitions) IN
      Range(epsilonClosure(closure, nfaLambda[1].transitions)) = Range(closure)

\* The closure of a state of (a|b)*abb that is reached over two epsilon
\* transitions in a row has been computed, and it is its own closure.
C12_Witness ==
  /\ input = RegexInput(RegexABB)
  /\ Submitted
  /\ \E id \in Ids(nfaLambda[1]) :
       LET closure == epsilonClosure(<< id >>, nfaLambda[1].transitions) IN
       /\ Range(closure) # { id } \cup Targets(nfaLambda[1], { id }, Lambda)
       /\ epsilonClosure(closure, nfaLambda[1].transitions) = closure

\* The transitions an automaton without epsilon moves must have for the
\* automaton A with epsilon moves: closure, one symbol, closure.
ClosedTriples(A) ==
  UNION { { Transition(id, r, a) :
              r \in LambdaReach(A, Targets(A, LambdaReach(A, { id }), a)) } :
          <<id, a>> \in Ids(A) \X Range(A.alphabet) }

\* C13: the transitions nfaLambdaToNFA returns are exactly the triples
\* (s, a, r) with s a state, a an alphabet symbol and r in the closure of a
\* state entered on a from the closure of s, each of them once.
C13_ReducedTransitions ==
  Submitted =>
    /\ Range(nfa[1].transitions) = ClosedTriples(nfaLambda[1])
    /\ Len(nfa[1].transitions) = Cardinality(ClosedTriples(nfaLambda[1]))

\* A reduced automaton has a transition that is no transition of its input
\* on the same symbol, and one that two transitions of the input lead to.
C13_Witness ==
  /\ Submitted
  /\ \E t \in Range(nfa[1].transitions) :
       /\ t.to \notin Targets(nfaLambda[1], { t.from }, t.symbol)
       /\ Cardinality({ k \in 1..Len(nfaLambda[1].transitions) :
             LET x == nfaLambda[1].transitions[k] IN
             /\ x.symbol = t.symbol
             /\ x.from \in LambdaReach(nfaLambda[1], { t.from })
             /\ t.to \in LambdaReach(nfaLambda[1], { x.to }) }) >= 2

\* C14: nfaLambdaToNFA returns the states of its input in the same order with
\* the same ids and isStart flags, and the same alphabet; a returned state is
\* accept exactly when a state of its closure is accept in the input.
C14_ReducedStates ==
  Submitted =>
    /\ nfa[1].alphabet = nfaLambda[1].alphabet
    /\ Len(nfa[1].states) = Len(nfaLambda[1].states)
    /\ \A k \in 1..Len(nfaLambda[1].states) :
         /\ nfa[1].states[k].id = nfaLambda[1].states[k].id
         /\ nfa[1].states[k].isStart = nfaLambda[1].states[k].isStart
         /\ nfa[1].states[k].isAccept
              <=> (LambdaReach(nfaLambda[1], { nfaLambda[1].states[k].id })
                     \cap AcceptIds(nfaLambda[1]) # {})

\* A state that is not accept in the input is accept in the reduced automaton,
\* and another state is accept in neither.
C14_Witness ==
  /\ Submitted
  /\ nfaLambda[1].alphabet # <<>>
  /\ \E k \in 1..Len(nfa[1].states) :
       nfa[1].states[k].isAccept /\ ~nfaLambda[1].states[k].isAccept
  /\ \E k \in 1..Len(nfa[1].states) : ~nfa[1].states[k].isAccept

\* The symbols of the transitions of an automaton.
Symbols(A) == { t.symbol : t \in Range(A.transitions) }

\* C15: the automata regexToNFALambda and parseEdgeList return never list the
\* epsilon marker in the alphabet and list every other symbol of their
\* transitions; the automata nfaLambdaToNFA and nfaToDFA make of them have no
\* transition on the epsilon marker and only transitions on alphabet symbols.
C15_AlphabetConsistent ==
  Submitted =>
    /\ Lambda \notin Range(nfaLambda[1].alphabet)
    /\ Symbols(nfaLambda[1]) \ { Lambda } \subseteq Range(nfaLambda[1].alphabet)
    /\ Lambda \notin Symbols(nfa[1])
    /\ Symbols(nfa[1]) \subseteq Range(nfa[1].alphabet)
    /\ Lambda \notin Symbols(dfa[1])
    /\ Symbols(dfa[1]) \subseteq Range(dfa[1].alphabet)

\* The text holds the epsilon marker itself, the automaton built from it has
\* epsilon transitions and others, and the DFA has transitions.
C15_Witness ==
  /\ Submitted
  /\ LambdaChar \in Range(input.text)
  /\ Lambda \in Symbols(nfaLambda[1])
  /\ Symbols(nfaLambda[1]) # { Lambda }
  /\ dfa[1].transitions # <<>>

\* The ids of the states of A are pairwise distinct and every transition of A
\* leaves and enters a state of A.
IdsConsistent(A) ==
  /\ \A j, k \in 1..Len(A.states) : A.states[j].id = A.states[k].id => j = k
  /\ \A t \in Range(A.transitions) : t.from \in Ids(A) /\ t.to \in Ids(A)

\* C16: in every automaton regexToNFALambda, parseEdgeList, nfaLambdaToNFA and
\* nfaToDFA return, the state ids are pairwise distinct and the from and to of
\* every transition are ids of states of that automaton.
C16_IdsConsistent ==
  Submitted =>
    /\ IdsConsistent(nfaLambda[1])
    /\ IdsConsistent(nfa[1])
    /\ IdsConsistent(dfa[1])

\* The automaton A with no state marked start.
WithoutStart(A) ==
  [A EXCEPT !.states = [k \in 1..Len(A.states) |->
                          [A.states[k] EXCEPT !.isStart = FALSE]]]

\* The automaton has no states and no transitions, it has the alphabet given,
\* and validateString rejects every string on it.
EmptyRejecting(A, alphabet) ==
  /\ A = Automaton(<<>>, <<>>, alphabet)
  /\ \A s \in AllStrings : ~validateString(A, s)

\* C17: nfaToDFA on an automaton with no start state, the state-less automaton
\* of parseEdgeList included, returns no states, no transitions and the
\* alphabet of its input, and validateString rejects every string on the
\* result, the empty string included.
C17_NoStartGivesEmptyDfa ==
  Submitted =>
    /\ EmptyRejecting(nfaToDFA(WithoutStart(nfa[1])), nfa[1].alphabet)
    /\ StartIds(nfa[1]) = {} =>
         /\ EmptyRejecting(dfa[1], nfa[1].alphabet)
         /\ validationResult \in { <<>>, << FALSE >> }

\* An edge list whose only line is no transition line has been submitted and
\* the empty string validated on the state-less DFA.
C17_Witness ==
  /\ Submitted
  /\ input.kind = "edges"
  /\ input.text # <<>>
  /\ nfa[1].states = <<>>
  /\ dfa[1].states = <<>>
  /\ testString = <<>>
  /\ validationResult = << FALSE >>
\* C18: validateString walks from the start state one character at a time,
\* returns false as soon as the current state has no transition on the next
\* character, and otherwise returns whether the state reached after the last
\* character is accept; on the empty input it returns whether the start state
\* is accept.
C18_ValidateWalks ==
  Submitted =>
    /\ \A s \in AllStrings : validateString(dfa[1], s) = NfaAccepts(dfa[1], s)
    /\ validateString(dfa[1], <<>>)
         = (StartIds(dfa[1]) \cap AcceptIds(dfa[1]) # {})

\* A string has been rejected on a DFA with states because the walk found no
\* transition before the last character, and the DFA accepts another string.
C18_Witness ==
  /\ Submitted
  /\ validationResult = << FALSE >>
  /\ Len(testString) >= 2
  /\ NfaRun(dfa[1], StartIds(dfa[1]),
            SubSeq(testString, 1, Len(testString) - 1), 1) = {}
  /\ \E s \in AllStrings : s # <<>> /\ validateString(dfa[1], s)

\* The positions of the states of A marked start, and of those marked accept.
StartPositions(A) == { k \in 1..Len(A.states) : A.states[k].isStart }

AcceptPositions(A) == { k \in 1..Len(A.states) : A.states[k].isAccept }

\* C19: every automaton regexToNFALambda returns has exactly one state marked
\* start and exactly one state marked accept.
C19_OneStartOneAccept ==
  (Submitted /\ input.kind = "regex") =>
    /\ Cardinality(StartPositions(nfaLambda[1])) = 1
    /\ Cardinality(AcceptPositions(nfaLambda[1])) = 1
\* The automaton of a regex with a group, a bar, a quantifier and a
\* concatenation has been built: of its states, one is start and one accept.
C19_Witness ==
  /\ Submitted
  /\ input.kind = "regex"
  /\ { "(", "|", "?" } \subseteq Range(input.text)
  /\ Len(nfaLambda[1].states) >= 8
  /\ Cardinality(StartPositions(nfaLambda[1])) = 1
  /\ Cardinality(AcceptPositions(nfaLambda[1])) = 1
\* The automaton a builder returns for a text.
Build(kind, text) ==
  IF kind = "regex" THEN regexToNFALambda(text) ELSE parseEdgeList(text)

\* The stored NFA-lambda is the automaton built, and the stored NFA is what
\* nfaLambdaToNFA makes of it.
StoredAsBuilt(built) ==
  /\ nfaLambda[1] = built
  /\ nfa[1] = nfaLambdaToNFA(built)

WithoutWhitespace(text) == SelectSeq(text, LAMBDA c : ~IsSpace(c))

\* C21: regexToNFALambda ignores whitespace: a regex with whitespace
\* characters in it gives the automaton of the regex without them.
C21_WhitespaceIgnored ==
  (Submitted /\ input.kind = "regex") =>
    regexToNFALambda(input.text) = regexToNFALambda(WithoutWhitespace(input.text))
\* The lines of an edge list that have three fields or are a directive.
WithoutShortLines(lines) == SelectSeq(lines, LAMBDA l : l.kind # "short")

\* C22: parseEdgeList skips every line of fewer than three fields that is no
\* directive: with such lines at any position, the first included, it returns
\* the states, start and accept marks, transitions and alphabet it returns
\* for the edge list without them.
C22_ShortLinesSkipped ==
  (Submitted /\ input.kind = "edges") =>
    /\ parseEdgeList(input.text) = parseEdgeList(EdgeText(WithoutShortLines(input.lines)))
    /\ toast = "success"

\* An edge list whose first line has two fields and whose second line is a
\* transition has been submitted, and the automaton built has states.
C22_Witness ==
  /\ Submitted
  /\ input.kind = "edges"
  /\ Len(input.lines) = 2
  /\ input.lines[1].kind = "short"
  /\ input.lines[2].kind = "transition"
  /\ nfaLambda[1] = parseEdgeList(input.lines[2].text)
  /\ StartIds(nfaLambda[1]) = { input.lines[2].from }
\* The transition lines of an edge list whose symbol is written e or with
\* the epsilon glyph.
EpsilonLines(lines) ==
  { l \in Range(lines) :
      /\ l.kind = "transition"
      /\ \E k \in 1..Len(l.text) : l.text[k] \in { "e", EpsilonChar }
      /\ l.symbol = Lambda }

\* The automaton with the states given and the transitions the lines of the
\* edge list write down, the epsilon ones on the epsilon marker.
WrittenAutomaton(states, lines) ==
  Automaton(states,
            [k \in 1..Len(SelectSeq(lines, LAMBDA l : l.kind = "transition")) |->
               LET l == SelectSeq(lines, LAMBDA x : x.kind = "transition")[k] IN
               Transition(l.from, l.to, l.symbol)],
            <<>>)

\* C23: parseEdgeList turns the symbols e and EPSILON into the epsilon marker
\* and keeps them out of the alphabet, and the derived NFA and DFA take a
\* transition written with them without reading a character.
C23_EpsilonSymbolsNormalized ==
  (Submitted /\ input.kind = "edges" /\ EpsilonLines(input.lines) # {}) =>
    /\ \A l \in EpsilonLines(input.lines) :
         Transition(l.from, l.to, Lambda) \in Range(nfaLambda[1].transitions)
    /\ Range(nfaLambda[1].alphabet)
         \cap { << "e" >>, << EpsilonChar >>, Lambda } = {}
    /\ Symbols(nfaLambda[1]) \cap { << "e" >>, << EpsilonChar >> } = {}
    /\ \A s \in AllStrings :
         /\ NfaAccepts(nfa[1], s)
              = LambdaAccepts(WrittenAutomaton(nfaLambda[1].states, input.lines), s)
         /\ validateString(dfa[1], s)
              = LambdaAccepts(WrittenAutomaton(nfaLambda[1].states, input.lines), s)

\* An edge list with a transition written with e or EPSILON has been
\* submitted; its start state has no transition on a, and the DFA accepts a
\* string that starts with a.
C23_Witness ==
  /\ Submitted
  /\ input.kind = "edges"
  /\ EpsilonLines(input.lines) # {}
  /\ Targets(nfaLambda[1], StartIds(nfaLambda[1]), << "a" >>) = {}
  /\ \E s \in AllStrings : s # <<>> /\ s[1] = "a" /\ validateString(dfa[1], s)
\* The ids of the states of A are q0, q1, ... up to the number of states,
\* each once.
NumberedFromZero(A) ==
  /\ Ids(A) = { QName(n) : n \in 0..(Len(A.states) - 1) }
  /\ Cardinality(Ids(A)) = Len(A.states)

\* C24: the state counter of regexToNFALambda belongs to one invocation: the
\* automaton stored after any sequence of invocations has its states numbered
\* from q0 upward, no id twice, and is the automaton one invocation on the
\* text returns.
C24_CounterPerInvocation ==
  (Submitted /\ input.kind = "regex") =>
    /\ NumberedFromZero(nfaLambda[1])
    /\ nfaLambda[1] \in { regexToNFALambda(input.text),
                           regexToNFALambda(Trim(input.text)) }

\* regexToNFALambda has run on the trimmed text, whose DFA gave the stored
\* validation result, and then on the text as typed, which has another DFA;
\* the automaton stored is that of one invocation on the text as typed.
C24_Witness ==
  /\ Submitted
  /\ input.kind = "regex"
  /\ validationResult # <<>>
  /\ validationResult[1] # validateString(dfa[1], testString)
  /\ validationResult[1]
       = validateString(nfaToDFA(nfaLambdaToNFA(regexToNFALambda(Trim(input.text)))),
                        testString)
  /\ nfaLambda[1] = regexToNFALambda(input.text)
  /\ NumberedFromZero(nfaLambda[1])
\* The subsets of states of A reached from the subsets in found by taking,
\* for a symbol of the alphabet, the targets of the members of a subset.
RECURSIVE ReachableSubsets(_, _)
ReachableSubsets(A, found) ==
  LET more == found \cup
                ({ Targets(A, K, a) : <<K, a>> \in found \X Range(A.alphabet) } \ { {} })
  IN  IF more = found THEN found ELSE ReachableSubsets(A, more)

\* The members of a set of ids in some order.
RECURSIVE SetToSeq(_)
SetToSeq(S) ==
  IF S = {} THEN <<>>
  ELSE LET x == CHOOSE x \in S : TRUE IN << x >> \o SetToSeq(S \ { x })

\* The id nfaToDFA gives the state of a subset before the renaming: the
\* sorted ids joined by commas.
SubsetId(K) == OrEmptySet(SetKey(SetToSeq(K)))

\* The states and transitions w, found for the automaton A, are those of the
\* subsets in R: one state for each subset, accept when the subset holds an
\* accept state of A, and one transition for each subset and symbol with a
\* successor that is not empty.
SubsetsMatch(w, A, R) ==
  /\ Len(w.dfaStates) = Cardinality(R)
  /\ { w.dfaStates[k].value.id : k \in 1..Len(w.dfaStates) } = { SubsetId(K) : K \in R }
  /\ \A K \in R : \A k \in 1..Len(w.dfaStates) :
       w.dfaStates[k].value.id = SubsetId(K) =>
         (w.dfaStates[k].value.isAccept <=> K \cap AcceptIds(A) # {})
  /\ Range(w.dfaTransitions)
       = { Transition(SubsetId(p[1]), SubsetId(Targets(A, p[1], p[2])), p[2]) :
             p \in { q \in R \X Range(A.alphabet) : Targets(A, q[1], q[2]) # {} } }
  /\ Len(w.dfaTransitions)
       = Cardinality({ q \in R \X Range(A.alphabet) : Targets(A, q[1], q[2]) # {} })

\* C25: the states nfaToDFA builds correspond one-to-one to the subsets that
\* are not empty and are reached from the start subset; a state is accept
\* exactly when its subset holds an accept state; every discovered subset has
\* a transition on every symbol with a successor that is not empty; no state
\* stands for the empty subset.
C25_SubsetConstruction ==
  (Submitted /\ StartIds(nfa[1]) # {}) =>
    SubsetsMatch(SubsetConstruction(nfa[1], FindStart(nfa[1].states)[1]),
                 nfa[1], ReachableSubsets(nfa[1], { StartIds(nfa[1]) }))
\* The name the renaming pass owes the state with the id given: q and the
\* 0-based position at which the state was discovered.
RenameOf(w, id) ==
  QName((CHOOSE k \in 1..Len(w.dfaStates) : w.dfaStates[k].value.id = id) - 1)

\* The automaton D is w renamed: the discovered states in their order as q0,
\* q1, ... with their flags, distinct ids renamed to distinct names, and the
\* transitions emitted, in their order, between the renamed states.
RenamedExactly(w, D) ==
  /\ \A j, k \in 1..Len(w.dfaStates) :
       w.dfaStates[j].value.id = w.dfaStates[k].value.id => j = k
  /\ D.states = [k \in 1..Len(w.dfaStates) |->
                   [w.dfaStates[k].value EXCEPT !.id = QName(k - 1)]]
  /\ D.states # <<>> => (D.states[1].isStart /\ D.states[1].id = QName(0))
  /\ D.transitions = [k \in 1..Len(w.dfaTransitions) |->
                        Transition(RenameOf(w, w.dfaTransitions[k].from),
                                   RenameOf(w, w.dfaTransitions[k].to),
                                   w.dfaTransitions[k].symbol)]

\* C26: the renaming pass of nfaToDFA maps the discovered subsets one-to-one
\* onto q0, q1, ... in discovery order, the start subset onto q0; the result
\* has the transition between two renamed states exactly when it was emitted
\* between the subsets, and the flags of every state are unchanged.
C26_RenamingIsBijection ==
  (Submitted /\ StartIds(nfa[1]) # {}) =>
    RenamedExactly(SubsetConstruction(nfa[1], FindStart(nfa[1].states)[1]), dfa[1])
\* 2 to the power n.
RECURSIVE Pow2(_)
Pow2(n) == IF n = 0 THEN 1 ELSE 2 * Pow2(n - 1)

\* The closure holds every state it was given or pushed on the stack, so its
\* length is the number of pushes: no state was pushed twice.
PushedOnce(closure, A) ==
  /\ Len(closure) = Cardinality(Range(closure))
  /\ Len(closure) <= Len(A.states)

\* dfaStates gets an entry with every subset enqueued, so its length is the
\* number of subsets enqueued: no more than there are reachable subsets of A,
\* and no more than 2^n - 1.
EnqueuedOnce(w, A) ==
  /\ Len(w.dfaStates) <= Cardinality(ReachableSubsets(A, { StartIds(A) }))
  /\ Len(w.dfaStates) <= Pow2(Len(A.states)) - 1
  /\ w.queue = <<>>

\* C27: the worklist loops end on every input: epsilonClosure ends on epsilon
\* cycles with every state pushed on its stack at most once, and the loop of
\* nfaToDFA ends with every distinct subset enqueued at most once, at most
\* 2^n - 1 subsets for n states.
C27_WorklistsTerminate ==
  Submitted =>
    /\ \A seed \in Seeds(nfaLambda[1]) :
         PushedOnce(epsilonClosure(seed, nfaLambda[1].transitions), nfaLambda[1])
    /\ StartIds(nfa[1]) # {} =>
         EnqueuedOnce(SubsetConstruction(nfa[1], FindStart(nfa[1].states)[1]), nfa[1])
\* The strings the languages of regular expressions are compared on.
Universe == StringsUpTo({ "a", "b", "c" }, MaxStrLen)

\* The strings of X followed by a string of Y.
ConcatLang(X, Y) == { z \in Universe : \E x \in X, y \in Y : z = x \o y }

\* Zero or more strings of X in a row, grown from L.
RECURSIVE StarLang(_, _)
StarLang(X, L) ==
  LET more == L \cup ConcatLang(L, X) IN
  IF more = L THEN L ELSE StarLang(X, more)

\* The language of an operand with a postfix operator.
PostfixLang(op, X) ==
  CASE op = "*" -> StarLang(X, { <<>> })
    [] op = "+" -> StarLang(X, X \cap Universe)
    [] op = "?" -> (X \cap Universe) \cup { <<>> }

\* The position of the first bar of e outside parentheses, from k on; 0 when
\* there is none.
RECURSIVE TopBar(_, _, _)
TopBar(e, k, depth) ==
  IF k > Len(e) THEN 0
  ELSE IF e[k] = "|" /\ depth = 0 THEN k
  ELSE TopBar(e, k + 1, IF e[k] = "(" THEN depth + 1
                        ELSE IF e[k] = ")" THEN depth - 1 ELSE depth)

\* The position of the parenthesis that closes the group open at depth.
RECURSIVE MatchingClose(_, _, _)
MatchingClose(e, k, depth) ==
  IF e[k] = ")" /\ depth = 1 THEN k
  ELSE MatchingClose(e, k + 1, IF e[k] = "(" THEN depth + 1
                               ELSE IF e[k] = ")" THEN depth - 1 ELSE depth)

\* The language of a regular expression by the documented grammar: a bar
\* splits the expression into alternatives, an alternative is a
\* concatenation of operands, an operand is a literal or a group followed by
\* any number of postfix operators, and spaces do not count.
RECURSIVE AltLang(_)
RECURSIVE CatLang(_)
RECURSIVE OperandLang(_, _, _)
AltLang(e) ==
  IF TopBar(e, 1, 0) = 0 THEN CatLang(e)
  ELSE CatLang(SubSeq(e, 1, TopBar(e, 1, 0) - 1))
         \cup AltLang(SubSeq(e, TopBar(e, 1, 0) + 1, Len(e)))

CatLang(e) ==
  IF e = <<>> THEN { <<>> }
  ELSE IF e[1] = " " THEN CatLang(Tail(e))
  ELSE IF e[1] = "("
    THEN OperandLang(AltLang(SubSeq(e, 2, MatchingClose(e, 2, 1) - 1)), e,
                     MatchingClose(e, 2, 1) + 1)
    ELSE OperandLang({ << e[1] >> }, e, 2)

OperandLang(X, e, k) ==
  IF k <= Len(e) /\ e[k] \in { "*", "+", "?" }
    THEN OperandLang(PostfixLang(e[k], X), e, k + 1)
  ELSE IF k <= Len(e) /\ e[k] = " " THEN OperandLang(X, e, k + 1)
  ELSE ConcatLang(X, CatLang(SubSeq(e, k, Len(e))))

\* A bar that no operand precedes: nothing but spaces, an opening
\* parenthesis or another bar stands before it.
EmptyLeftAlternative(regex) ==
  LET r == SelectSeq(regex, LAMBDA c : c # " ") IN
  \E k \in 1..Len(r) : r[k] = "|" /\ (k = 1 \/ r[k - 1] \in { "(", "|" })

\* A regex of the documented grammar over the letters a, b, c in which every
\* bar has an operand before it.
Grammatical(regex) ==
  /\ ~Malformed(regex)
  /\ ~EmptyLeftAlternative(regex)
  /\ Range(regex) \subseteq { "a", "b", "c", "(", ")", "|", "*", "+", "?", " " }

\* The strings of the universe a DFA accepts.
Accepted(D) == { s \in Universe : validateString(D, s) }

\* C28: a postfix operator applies to the literal or group just before it
\* and binds tighter than concatenation, which binds tighter than the bar;
\* x* is zero or more x, x+ one or more, x? zero or one: the DFA of a regex
\* whose bars all follow an operand accepts the language of the grammar.  The DFA of ab*
\* accepts a, ab, abb and rejects the empty string and abab; the DFA of a|bc
\* accepts exactly a and bc.
C28_OperatorPrecedence ==
  (Submitted /\ input.kind = "regex" /\ Grammatical(input.text)) =>
    /\ Accepted(dfa[1]) = AltLang(input.text)
    /\ input.text = << "a", "b", "*" >> =>
         /\ { << "a" >>, << "a", "b" >>, << "a", "b", "b" >> } \subseteq Accepted(dfa[1])
         /\ Accepted(dfa[1]) \cap { <<>>, << "a", "b", "a", "b" >> } = {}
    /\ input.text = << "a", "|", "b", "c" >> =>
         Accepted(dfa[1]) = { << "a" >>, << "b", "c" >> }

\* The DFA of ab* has been asked about the empty string and has rejected it.
C28_Witness ==
  /\ input = RegexInput(<< "a", "b", "*" >>)
  /\ Submitted
  /\ testString = <<>>
  /\ validationResult = << FALSE >>
  /\ << "a" >> \in Accepted(dfa[1])
\* C29: an empty alternative on either side of a bar stands for the empty
\* string: the DFAs of the regexes a| and |a accept exactly the empty string
\* and a.
C29_EmptyAlternative ==
  (Submitted /\ input.kind = "regex"
             /\ input.text \in { << "a", "|" >>, << "|", "a" >> }) =>
    Accepted(dfa[1]) = { <<>>, << "a" >> }
\* C30: in the input panel a displayed validation result is never stale:
\* whenever validationResult is not null it is validateString of the current
\* DFA and the current test string.
C30_ResultNeverStale ==
  validationResult # <<>> =>
    /\ dfa # <<>>
    /\ validationResult[1] = validateString(dfa[1], testString)

\* A test string was typed and validated on the DFA of a submitted input, and
\* another input has been typed since that would give another result: the
\* result shown is still the one of the current DFA.
C30_Witness ==
  /\ Submitted
  /\ testString # <<>>
  /\ validationResult # <<>>
  /\ validationResult[1] = validateString(dfa[1], testString)
  /\ Trim(input.text) # <<>>
  /\ validationResult[1]
       # validateString(nfaToDFA(nfaLambdaToNFA(Build(input.kind, Trim(input.text)))),
                        testString)

====
